---- MODULE Spec2Model ----
(***************************************************************************)
(* Model of the website-scraping subsystem of search-trends-dashboard:     *)
(*   src/src/website_scraper.py  (is_internal_url, get_subpages,           *)
(*                                get_text_from_url, scrape_single_page,   *)
(*                                scrape_website)                          *)
(*   src/src/app.py              (scrape_urls)                             *)
(*   src/src/constants.py        (the configuration constants)             *)
(*                                                                         *)
(* Python strings are sequences of one-character strings, indexed from 0   *)
(* as in Python (s[i] of Python is s[i + 1] here).  Page texts, which can  *)
(* be hundreds of thousands of characters long, are run-length encoded.    *)
(***************************************************************************)
EXTENDS Integers, Sequences, FiniteSets, TLC

VARIABLES
    \* ---- scrape_website (website_scraper.py) ----
    pc,                \* position in scrape_website: "start", "loop", "done", "raised"
    main_url,          \* the argument of scrape_website
    anchors,           \* the href values of the <a href> tags of the root page, in document order
    discovery,         \* what get_subpages did: "pending", "raised", "non200", "ok"
    subpages,          \* the candidate collection of scrape_website
    pending,           \* candidates the for loop has not visited yet
    visited,           \* the loop's history: <<[page, outcome, text]>>, one entry per iteration
    all_text,          \* the list all_text
    successful_pages,  \* the counter successful_pages
    result,            \* the returned combined_text (run-length encoded), once pc = "done"
    exception,         \* the exception that left scrape_website, or "none"
    requests,          \* every HTTP GET issued: <<[fn, url]>>
    \* ---- scrape_urls (app.py) ----
    upc,               \* position in scrape_urls: "scan", "done"
    search_queries,    \* the argument of scrape_urls
    urls,              \* the list urls
    current_pos,       \* the scan position
    spans,             \* (https_start, url_end) of every extracted URL, in extraction order
    \* ---- scrape_articles (app.py) ----
    apc,               \* position in scrape_articles: "urls", "loop", "done"
    unique_urls,       \* the deduplicated list urls of scrape_articles
    art_index,         \* how many of unique_urls the for loop has taken
    articles_text,     \* the string all_text of scrape_articles (run-length encoded)
    art_log,           \* the loop's history: <<[url, got, ret]>>, one entry per iteration
    \* ---- get_text_from_url's extraction (website_scraper.py 87-97) ----
    epc,               \* position: "parsed", "clean", "found", "done"
    parsed,            \* the tree BeautifulSoup built from response.text, as parsed
    soup,              \* the tree as it is now
    paragraphs,        \* the result of soup.find_all('p')
    extracted,         \* the string all_text that is returned
    \* ---- the dashboard, main (app.py 171-285) ----
    dpc,               \* position in main: "ready" between two runs of the script, else
                       \* the step of the "Find article ideas" handler that is next
    trending_data,     \* st.session_state.trending_data: [present, rows]
    article_ideas_data,\* st.session_state.article_ideas_data: [present, rows]
    progress_message,  \* what progress_message shows
    row_index,         \* how many rows of data the for loop has finished
    scraped,           \* local scraped_text
    prompt,            \* local prompt
    article_ideas,     \* local article_ideas
    article_ideas_list,\* local article_ideas_list
    save_log           \* the save_text calls of this run: <<[row, file, content, outcome]>>

crawlVars == <<pc, main_url, anchors, discovery, subpages, pending, visited,
               all_text, successful_pages, result, exception, requests>>
urlVars   == <<upc, search_queries, urls, current_pos, spans>>
artVars   == <<apc, unique_urls, art_index, articles_text, art_log>>
extVars   == <<epc, parsed, soup, paragraphs, extracted>>
dashVars  == <<dpc, trending_data, article_ideas_data, progress_message, row_index,
               scraped, prompt, article_ideas, article_ideas_list, save_log>>
vars      == <<pc, main_url, anchors, discovery, subpages, pending, visited,
               all_text, successful_pages, result, exception, requests,
               upc, search_queries, urls, current_pos, spans,
               apc, unique_urls, art_index, articles_text, art_log,
               epc, parsed, soup, paragraphs, extracted,
               dpc, trending_data, article_ideas_data, progress_message, row_index,
               scraped, prompt, article_ideas, article_ideas_list, save_log>>

-----------------------------------------------------------------------------
(* Bounds of the model *)

\* longest input text of scrape_urls, counted in chunks of TextChunks
MaxChunks == 4

\* most <a href> tags on the root page
MaxHrefs == 2

\* most URLs a run of scrape_urls is followed for; only a scan that never ends reaches it
MaxUrls == 8

-----------------------------------------------------------------------------
(* Python string primitives *)

Min(a, b) == IF a < b THEN a ELSE b
Max(a, b) == IF a > b THEN a ELSE b

UpperLetters == <<"A","B","C","D","E","F","G","H","I","J","K","L","M",
                  "N","O","P","Q","R","S","T","U","V","W","X","Y","Z">>
LowerLetters == <<"a","b","c","d","e","f","g","h","i","j","k","l","m",
                  "n","o","p","q","r","s","t","u","v","w","x","y","z">>

\* U+0130, LATIN CAPITAL LETTER I WITH DOT ABOVE: the one character whose
\* str.lower() is two characters long (i followed by U+0307).
IDotAbove == "U+0130"
CombiningDot == "U+0307"

\* str.lower() of one character: a string, not always of length 1
LowerChar(c) ==
    IF \E i \in 1..26 : UpperLetters[i] = c
    THEN <<LowerLetters[CHOOSE i \in 1..26 : UpperLetters[i] = c]>>
    ELSE IF c = IDotAbove THEN <<"i", CombiningDot>>
    ELSE <<c>>

\* str.lower()
RECURSIVE StrLower(_)
StrLower(s) ==
    IF s = <<>> THEN <<>>
    ELSE IF Len(s) = 1 THEN LowerChar(s[1])
    ELSE StrLower(SubSeq(s, 1, Len(s) \div 2))
         \o StrLower(SubSeq(s, Len(s) \div 2 + 1, Len(s)))

\* s[a:b] for 0 <= a, 0 <= b
Slice(s, a, b) ==
    IF a >= Min(b, Len(s)) THEN <<>> ELSE SubSeq(s, a + 1, Min(b, Len(s)))

\* s[a:]
SliceFrom(s, a) == Slice(s, a, Len(s))

\* s.startswith(p)
StartsWith(s, p) == Len(s) >= Len(p) /\ SubSeq(s, 1, Len(p)) = p

\* s.endswith(p)
EndsWith(s, p) ==
    Len(s) >= Len(p) /\ SubSeq(s, Len(s) - Len(p) + 1, Len(s)) = p

\* hay.find(needle, start): the lowest index >= start where needle occurs, or -1
Find(hay, needle, start) ==
    LET hits == { i \in start..(Len(hay) - Len(needle)) :
                     SubSeq(hay, i + 1, i + Len(needle)) = needle }
    IN IF hits = {} THEN -1 ELSE CHOOSE i \in hits : \A j \in hits : i <= j

\* s.strip(ch) for a one-character ch
RECURSIVE LStrip(_, _)
LStrip(s, ch) ==
    IF s # <<>> /\ Head(s) = ch THEN LStrip(Tail(s), ch) ELSE s
RECURSIVE RStrip(_, _)
RStrip(s, ch) ==
    IF s # <<>> /\ s[Len(s)] = ch THEN RStrip(SubSeq(s, 1, Len(s) - 1), ch) ELSE s
Strip(s, ch) == RStrip(LStrip(s, ch), ch)

\* the concatenation of a sequence of strings
RECURSIVE Flatten(_)
Flatten(ss) == IF ss = <<>> THEN <<>> ELSE Head(ss) \o Flatten(Tail(ss))

\* all sequences over S of length 0..n
SeqsUpTo(S, n) == UNION { [1..k -> S] : k \in 0..n }

-----------------------------------------------------------------------------
(* urllib.parse, as website_scraper.py uses it (lines 14, 40, 59).  The    *)
(* URLs of the model carry no query, fragment or parameters.               *)

Digits == {"0","1","2","3","4","5","6","7","8","9"}
AsciiLetters == { UpperLetters[i] : i \in 1..26 } \cup { LowerLetters[i] : i \in 1..26 }

\* urllib.parse.scheme_chars
SchemeChars == AsciiLetters \cup Digits \cup {"+", "-", "."}

\* the members of urllib.parse.uses_relative / uses_netloc a URL of the model can carry
UsesRelative == { <<>>, <<"h","t","t","p">>, <<"h","t","t","p","s">>, <<"f","t","p">> }
UsesNetloc   == { <<>>, <<"h","t","t","p">>, <<"h","t","t","p","s">>, <<"f","t","p">> }

\* the lowest index >= start of a character of chars in s, else len(s)
FirstOf(s, chars, start) ==
    LET hits == { i \in start..(Len(s) - 1) : s[i + 1] \in chars }
    IN IF hits = {} THEN Len(s) ELSE CHOOSE i \in hits : \A j \in hits : i <= j

\* the index of the ':' that ends the scheme of url, or -1 when url has no scheme
SchemeEnd(url) ==
    LET colon == Find(url, <<":">>, 0)
    IN IF /\ colon > 0
          /\ url[1] \in AsciiLetters
          /\ \A k \in 1..colon : url[k] \in SchemeChars
       THEN colon ELSE -1

\* urlsplit, once the scheme is cut off: the netloc runs from "//" to the next / ? or #
SplitNetlocAt(scheme, rest, delim) ==
    [ scheme |-> scheme, netloc |-> Slice(rest, 2, delim), path |-> SliceFrom(rest, delim) ]

SplitNetloc(scheme, rest) ==
    IF Slice(rest, 0, 2) = <<"/", "/">>
    THEN SplitNetlocAt(scheme, rest, FirstOf(rest, {"/", "?", "#"}, 2))
    ELSE [ scheme |-> scheme, netloc |-> <<>>, path |-> rest ]

UrlSplitAt(url, default, colon) ==
    IF colon > 0
    THEN SplitNetloc(StrLower(Slice(url, 0, colon)), SliceFrom(url, colon + 1))
    ELSE SplitNetloc(default, url)

\* urlsplit(url, scheme=default): [scheme, netloc, path]
UrlSplit(url, default) == UrlSplitAt(url, default, SchemeEnd(url))

\* urlparse(url).netloc
Netloc(url) == UrlSplit(url, <<>>).netloc

\* urlunsplit((scheme, netloc, path, '', ''))
UrlUnsplit(scheme, netloc, path) ==
    LET withNetloc ==
            IF netloc # <<>>
               \/ (scheme # <<>> /\ scheme \in UsesNetloc /\ Slice(path, 0, 2) # <<"/", "/">>)
            THEN <<"/", "/">> \o netloc
                 \o (IF path # <<>> /\ Head(path) # "/" THEN <<"/">> \o path ELSE path)
            ELSE path
    IN IF scheme # <<>> THEN scheme \o <<":">> \o withNetloc ELSE withNetloc

\* path.split('/')
RECURSIVE SplitSlash(_)
SplitSlash(s) ==
    LET i == FirstOf(s, {"/"}, 0)
    IN IF i = Len(s) THEN <<s>>
       ELSE <<Slice(s, 0, i)>> \o SplitSlash(SliceFrom(s, i + 1))

\* '/'.join(segments)
RECURSIVE JoinSlash(_)
JoinSlash(segs) ==
    IF segs = <<>> THEN <<>>
    ELSE IF Len(segs) = 1 THEN Head(segs)
    ELSE Head(segs) \o <<"/">> \o JoinSlash(Tail(segs))

\* list(filter(None, segs))
RECURSIVE DropEmpty(_)
DropEmpty(segs) ==
    IF segs = <<>> THEN <<>>
    ELSE IF Head(segs) = <<>> THEN DropEmpty(Tail(segs))
    ELSE <<Head(segs)>> \o DropEmpty(Tail(segs))

\* urljoin's removal of "." and ".." segments
RECURSIVE RemoveDots(_, _)
RemoveDots(segs, acc) ==
    IF segs = <<>> THEN acc
    ELSE IF Head(segs) = <<".", ".">>
         THEN RemoveDots(Tail(segs),
                         IF acc = <<>> THEN acc ELSE SubSeq(acc, 1, Len(acc) - 1))
    ELSE IF Head(segs) = <<".">> THEN RemoveDots(Tail(segs), acc)
    ELSE RemoveDots(Tail(segs), Append(acc, Head(segs)))

\* base_parts of urljoin: the base path's segments without its last non-empty one
BaseParts(bsplit) ==
    IF bsplit[Len(bsplit)] # <<>> THEN SubSeq(bsplit, 1, Len(bsplit) - 1) ELSE bsplit

\* segments[1:-1] = filter(None, segments[1:-1])
TrimMiddle(joined) ==
    IF Len(joined) <= 2 THEN joined
    ELSE <<Head(joined)>> \o DropEmpty(SubSeq(joined, 2, Len(joined) - 1))
         \o <<joined[Len(joined)]>>

\* the segments urljoin resolves
MergeSegments(bpath, path) ==
    IF Head(path) = "/" THEN SplitSlash(path)
    ELSE TrimMiddle(BaseParts(SplitSlash(bpath)) \o SplitSlash(path))

\* the resolved path: dot segments removed, a trailing '' kept after a final dot segment
ResolvePath(segments) ==
    JoinSlash(RemoveDots(segments, <<>>)
              \o (IF segments[Len(segments)] \in {<<".">>, <<".", ".">>}
                  THEN << <<>> >> ELSE <<>>))

\* '/'.join(resolved_path) or '/'
OrSlash(path) == IF path = <<>> THEN <<"/">> ELSE path

\* urljoin, once base (b) and url (u) are split
UrlJoinSplit(url, b, u) ==
    IF u.scheme # b.scheme \/ u.scheme \notin UsesRelative THEN url
    ELSE IF u.scheme \in UsesNetloc /\ u.netloc # <<>>
    THEN UrlUnsplit(u.scheme, u.netloc, u.path)
    ELSE UrlUnsplit(u.scheme,
                    IF u.scheme \in UsesNetloc THEN b.netloc ELSE u.netloc,
                    IF u.path = <<>> THEN b.path
                    ELSE OrSlash(ResolvePath(MergeSegments(b.path, u.path))))

UrlJoinBase(url, b) == UrlJoinSplit(url, b, UrlSplit(url, b.scheme))

\* urljoin(base, url)
UrlJoin(base, url) ==
    IF base = <<>> THEN url
    ELSE IF url = <<>> THEN base
    ELSE UrlJoinBase(url, UrlSplit(base, <<>>))

-----------------------------------------------------------------------------
(* src/src/constants.py *)

COMMON_SUBPAGE_NAMES ==
    { <<"a","b","o","u","t","-","u","s">>,
      <<"a","b","o","u","t">>,
      <<"t","e","a","m">>,
      <<"m","e","e","t","-","t","h","e","-","t","e","a","m">>,
      <<"s","e","r","v","i","c","e","s">>,
      <<"p","r","o","d","u","c","t","s">>,
      <<"o","u","r","-","w","o","r","k">>,
      <<"t","e","s","t","i","m","o","n","i","a","l","s">>,
      <<"r","e","v","i","e","w","s">>,
      <<"p","o","r","t","f","o","l","i","o">>,
      <<"g","a","l","l","e","r","y">>,
      <<"p","r","i","c","i","n","g">>,
      <<"r","a","t","e","s">>,
      <<"f","a","q","s">>,
      <<"c","o","n","t","a","c","t">>,
      <<"c","o","n","t","a","c","t","-","u","s">>,
      <<"s","u","p","p","o","r","t">>,
      <<"h","e","l","p">>,
      <<"c","a","r","e","e","r","s">>,
      <<"j","o","b","s">>,
      <<"o","u","r","-","s","t","o","r","y">>,
      <<"m","i","s","s","i","o","n">>,
      <<"v","i","s","i","o","n">>,
      <<"v","a","l","u","e","s">>,
      <<"e","t","h","i","c","s">>,
      <<"h","i","s","t","o","r","y">>,
      <<"m","a","n","a","g","e","m","e","n","t">>,
      <<"s","t","a","f","f">>,
      <<"l","e","a","d","e","r","s","h","i","p">>,
      <<"e","x","e","c","u","t","i","v","e","s">>,
      <<"d","i","r","e","c","t","o","r","s">>,
      <<"c","l","i","e","n","t","s">>,
      <<"c","u","s","t","o","m","e","r","s">>,
      <<"p","a","r","t","n","e","r","s">>,
      <<"i","n","v","e","s","t","o","r","s">>,
      <<"s","t","a","k","e","h","o","l","d","e","r","s">>,
      <<"c","e","r","t","i","f","i","c","a","t","i","o","n","s">>,
      <<"a","c","c","r","e","d","i","t","a","t","i","o","n","s">>,
      <<"a","w","a","r","d","s">>,
      <<"h","o","n","o","r","s">>,
      <<"r","e","c","o","g","n","i","t","i","o","n">>,
      <<"p","r","e","s","s">>,
      <<"m","e","d","i","a">>,
      <<"n","e","w","s">>,
      <<"e","v","e","n","t","s">>,
      <<"w","e","b","i","n","a","r","s">>,
      <<"s","e","m","i","n","a","r","s">>,
      <<"w","o","r","k","s","h","o","p","s">>,
      <<"c","o","n","f","e","r","e","n","c","e","s">>,
      <<"e","x","h","i","b","i","t","i","o","n","s">>,
      <<"t","r","a","d","e","s","h","o","w","s">>,
      <<"c","a","s","e","-","s","t","u","d","i","e","s">>,
      <<"w","h","i","t","e","p","a","p","e","r","s">>,
      <<"r","e","p","o","r","t","s">>,
      <<"e","b","o","o","k","s">>,
      <<"g","u","i","d","e","s">>,
      <<"b","l","o","g">>,
      <<"i","n","s","i","g","h","t","s">>,
      <<"r","e","s","o","u","r","c","e","s">>,
      <<"a","r","t","i","c","l","e","s">>,
      <<"p","a","p","e","r","s">>,
      <<"n","e","w","s","l","e","t","t","e","r","s">>,
      <<"a","n","n","o","u","n","c","e","m","e","n","t","s">>,
      <<"u","p","d","a","t","e","s">>,
      <<"r","e","l","e","a","s","e","s">>,
      <<"p","u","b","l","i","c","a","t","i","o","n","s">>,
      <<"p","r","i","v","a","c","y","-","p","o","l","i","c","y">>,
      <<"t","e","r","m","s","-","o","f","-","s","e","r","v","i","c","e">>,
      <<"l","e","g","a","l">>,
      <<"c","o","m","p","l","i","a","n","c","e">>,
      <<"s","e","c","u","r","i","t","y">>,
      <<"l","o","g","i","n">>,
      <<"r","e","g","i","s","t","e","r">>,
      <<"s","i","g","n","u","p">>,
      <<"d","a","s","h","b","o","a","r","d">>,
      <<"f","o","r","u","m","s">>,
      <<"c","o","m","m","u","n","i","t","y">>,
      <<"s","u","p","p","o","r","t","-","c","e","n","t","e","r">>,
      <<"f","a","q">>,
      <<"h","e","l","p","-","c","e","n","t","e","r">>,
      <<"s","t","o","r","e">>,
      <<"s","h","o","p">>,
      <<"b","o","o","k","i","n","g">>,
      <<"s","c","h","e","d","u","l","e">>,
      <<"a","p","p","o","i","n","t","m","e","n","t","s">>,
      <<"l","o","c","a","t","i","o","n","s">>,
      <<"o","f","f","i","c","e","s">>,
      <<"b","r","a","n","c","h","e","s">>,
      <<"c","o","n","t","a","c","t","-","f","o","r","m">>,
      <<"i","n","q","u","i","r","y">>,
      <<"g","e","t","-","a","-","q","u","o","t","e">>,
      <<"f","i","n","d","-","u","s">> }

SKIP_EXTENSIONS ==
    { <<".","p","d","f">>,
      <<".","j","p","g">>,
      <<".","p","n","g">>,
      <<".","j","p","e","g">>,
      <<".","g","i","f">>,
      <<".","b","m","p">>,
      <<".","t","i","f","f">> }

RootSite == <<"h","t","t","p","s",":","/","/","a",".","c","o","m">>

RootPdf == <<"h","t","t","p","s",":","/","/","a",".","c","o","m","/","x",".","p","d","f">>

RootNoScheme == <<"a",".","c","o","m">>

HrefAboutUs == <<"/","a","b","o","u","t","-","u","s">>

HrefAboutUsCased == <<"A","b","o","u","t","-","U","s","/">>

HrefExternal == <<"h","t","t","p","s",":","/","/","e","x","t","e","r","n","a","l",".","c","o","m","/","p","a","r","t","n","e","r">>

HrefPostRel == <<"/","p","o","s","t">>

HrefRoot == <<"h","t","t","p","s",":","/","/","a",".","c","o","m">>

HrefPdf == <<"h","t","t","p","s",":","/","/","a",".","c","o","m","/","D","o","c",".","P","D","F">>

MAX_SCRAPED_TEXT_LENGTH == 500000

-----------------------------------------------------------------------------
(* Page texts, run-length encoded: a string is a sequence of runs          *)
(* [c |-> character, n |-> count >= 1] with no two adjacent runs of the    *)
(* same character.                                                         *)

Run(c, n) == << [c |-> c, n |-> n] >>

\* len(t)
RECURSIVE TextLen(_)
TextLen(t) == IF t = <<>> THEN 0 ELSE Head(t).n + TextLen(Tail(t))

\* a + b
TextConcat(a, b) ==
    IF a = <<>> THEN b
    ELSE IF b = <<>> THEN a
    ELSE IF a[Len(a)].c = Head(b).c
         THEN SubSeq(a, 1, Len(a) - 1)
              \o Run(Head(b).c, a[Len(a)].n + Head(b).n)
              \o Tail(b)
    ELSE a \o b

\* t[:k]
RECURSIVE TextPrefix(_, _)
TextPrefix(t, k) ==
    IF t = <<>> \/ k <= 0 THEN <<>>
    ELSE IF Head(t).n >= k THEN Run(Head(t).c, k)
    ELSE <<Head(t)>> \o TextPrefix(Tail(t), k - Head(t).n)

\* sep.join(texts)
RECURSIVE TextJoin(_, _)
TextJoin(sep, texts) ==
    IF texts = <<>> THEN <<>>
    ELSE IF Len(texts) = 1 THEN Head(texts)
    ELSE TextConcat(TextConcat(Head(texts), sep), TextJoin(sep, Tail(texts)))

Space == Run(" ", 1)

-----------------------------------------------------------------------------
(* src/src/website_scraper.py *)

\* is_internal_url (website_scraper.py 25-40)
is_internal_url(base_url, url) == Netloc(url) = Netloc(base_url)

\* href.strip("/").lower() in COMMON_SUBPAGE_NAMES (website_scraper.py 58)
IsCommonSubpage(href) == StrLower(Strip(href, "/")) \in COMMON_SUBPAGE_NAMES

\* a get_subpages that keeps the raw href
SubpageRaw(url, href) == href

\* the subpage a kept href contributes (website_scraper.py 59)
SubpageOf(url, href) == UrlJoin(url, href)

\* the for loop of get_subpages over the anchors (website_scraper.py 54-60)
RECURSIVE CollectSubpages(_, _, _)
CollectSubpages(url, hrefs, acc) ==
    IF hrefs = <<>> THEN acc
    ELSE LET href == Head(hrefs)
         IN CollectSubpages(url, Tail(hrefs),
                IF is_internal_url(url, href) \/ IsCommonSubpage(href)
                THEN acc \cup {SubpageOf(url, href)}
                ELSE acc)

\* get_subpages, given the status of the response and the hrefs of its anchors
\* (website_scraper.py 43-62): an empty *list* on a non-200 status, else a set
get_subpages(url, status, hrefs) ==
    IF status # 200
    THEN [kind |-> "list", items |-> {}]
    ELSE [kind |-> "set", items |-> CollectSubpages(url, hrefs, {})]

\* any(url.lower().endswith(ext) for ext in SKIP_EXTENSIONS) (website_scraper.py 72, 125)
HasSkipExtension(url) ==
    LET lowered == StrLower(url)
    IN \E ext \in SKIP_EXTENSIONS : EndsWith(lowered, ext)

\* requests.get raises before sending anything unless the URL has an http(s)
\* scheme and a host (MissingSchema, InvalidSchema, InvalidURL)
RequestsRejects(url) ==
    \/ UrlSplit(url, <<>>).scheme \notin { <<"h","t","t","p">>, <<"h","t","t","p","s">> }
    \/ Netloc(url) = <<>>

\* check_scraped_text_length (website_scraper.py 110-113); no function calls it
check_scraped_text_length(scraped_text) ==
    IF TextLen(scraped_text) > MAX_SCRAPED_TEXT_LENGTH
    THEN TextPrefix(scraped_text, MAX_SCRAPED_TEXT_LENGTH)
    ELSE scraped_text

\* what the network and the parser can answer to the GET of get_text_from_url:
\* a successful response whose <p> texts are `text`, a requests.RequestException
\* (network error, or raise_for_status on a non-success status), or any other exception
PageTexts == { <<>>, Run("p", 3), Run("q", 300000) }
Responses ==
    [kind : {"ok"}, text : PageTexts]
    \cup { [kind |-> "request_exception", text |-> <<>>],
           [kind |-> "exception", text |-> <<>>] }

\* get_text_from_url (website_scraper.py 65-97):
\* [raised, isNone, text, fetched]; fetched says whether a GET was issued
get_text_from_url(url, resp) ==
    IF HasSkipExtension(url)
    THEN [raised |-> FALSE, isNone |-> FALSE, text |-> <<>>, fetched |-> FALSE]
    ELSE IF RequestsRejects(url)
    THEN [raised |-> FALSE, isNone |-> TRUE, text |-> <<>>, fetched |-> FALSE]
    ELSE IF resp.kind = "request_exception"
    THEN [raised |-> FALSE, isNone |-> TRUE, text |-> <<>>, fetched |-> TRUE]
    ELSE IF resp.kind = "exception"
    THEN [raised |-> TRUE, isNone |-> FALSE, text |-> <<>>, fetched |-> TRUE]
    ELSE [raised |-> FALSE, isNone |-> FALSE, text |-> resp.text, fetched |-> TRUE]

\* a scrape_single_page without the `or ""`: None comes through
scrape_single_page_no_coercion(url, resp) ==
    IF HasSkipExtension(url)
    THEN [raised |-> FALSE, isNone |-> FALSE, text |-> <<>>, fetched |-> FALSE]
    ELSE get_text_from_url(url, resp)

\* scrape_single_page (website_scraper.py 116-136):
\* [raised, isNone, text, fetched]; isNone says whether it returned None
scrape_single_page(url, resp) ==
    IF HasSkipExtension(url)
    THEN [raised |-> FALSE, isNone |-> FALSE, text |-> <<>>, fetched |-> FALSE]
    ELSE LET r == get_text_from_url(url, resp)
         IN [raised  |-> r.raised,
             isNone  |-> FALSE,
             text    |-> IF r.isNone \/ r.text = <<>> THEN <<>> ELSE r.text,
             fetched |-> r.fetched]

\* a loop that appends every result, empty or not
CollectTextAlways(texts, text_content) == Append(texts, text_content)

\* `if text_content: all_text.append(text_content)` (website_scraper.py 162-163)
CollectText(texts, text_content) ==
    IF text_content # <<>> THEN Append(texts, text_content) ELSE texts

\* a loop without the try/except: the exception leaves scrape_website
OnPageExceptionAbort == "raised"

\* `except Exception: ... continue` (website_scraper.py 166-168): the loop goes on
OnPageException == "loop"

\* a counter that counts every page that returned, empty or not
CountEveryPage(count, text_content) == count + 1

\* `if text_content: ... successful_pages += 1` (website_scraper.py 162-164)
CountSuccessful(count, text_content) ==
    IF text_content # <<>> THEN count + 1 ELSE count

\* a crawl that forgets the root page
WithoutRoot(found, root) == found

\* subpages.add(main_url) (website_scraper.py 152)
AddRoot(found, root) == found \cup {root}

\* a loop that comes back to a page it has already visited
RemainingUnchanged(todo, page) == todo

\* `for page in subpages` (website_scraper.py 159): what is left to iterate
\* once page has been taken
Remaining(todo, page) == todo \ {page}

\* what scrape_website returns (website_scraper.py 171, 180)
CombinedText(texts) == TextJoin(Space, texts)

RootUrls == { RootSite, RootPdf, RootNoScheme }
Hrefs == { HrefAboutUs, HrefAboutUsCased, HrefExternal, HrefPostRel, HrefRoot, HrefPdf }
HttpStatuses == { 200, 500 }

\* get_subpages raises: requests.get rejects the URL or the connection fails
\* (website_scraper.py 48, 151); nothing in scrape_website catches it
DiscoverRaises ==
    /\ pc = "start"
    /\ discovery' = "raised"
    /\ pc' = "raised"
    /\ exception' = "RequestException"
    /\ requests' = IF RequestsRejects(main_url) THEN requests
                   ELSE Append(requests, [fn |-> "get_subpages", url |-> main_url])
    /\ UNCHANGED <<main_url, anchors, subpages, pending, visited, all_text,
                   successful_pages, result>>
    /\ UNCHANGED urlVars
    /\ UNCHANGED artVars
    /\ UNCHANGED extVars
    /\ UNCHANGED dashVars

\* get_subpages returns, then subpages.add(main_url) (website_scraper.py 151-157)
Discover(status) ==
    /\ pc = "start"
    /\ ~RequestsRejects(main_url)
    /\ requests' = Append(requests, [fn |-> "get_subpages", url |-> main_url])
    /\ LET found == get_subpages(main_url, status, anchors)
       IN IF found.kind = "set"
          THEN /\ discovery' = "ok"
               /\ subpages' = AddRoot(found.items, main_url)
               /\ pending' = AddRoot(found.items, main_url)
               /\ pc' = "loop"
               /\ UNCHANGED exception
          ELSE \* a list has no attribute add
               /\ discovery' = "non200"
               /\ pc' = "raised"
               /\ exception' = "AttributeError"
               /\ UNCHANGED <<subpages, pending>>
    /\ UNCHANGED <<main_url, anchors, visited, all_text, successful_pages, result>>
    /\ UNCHANGED urlVars
    /\ UNCHANGED artVars
    /\ UNCHANGED extVars
    /\ UNCHANGED dashVars

\* one iteration of `for page in subpages` (website_scraper.py 159-168)
ScrapePage(page, resp) ==
    /\ pc = "loop"
    /\ page \in pending
    /\ pending' = Remaining(pending, page)
    /\ LET r == scrape_single_page(page, resp)
       IN /\ requests' = IF r.fetched
                         THEN Append(requests, [fn |-> "get_text_from_url", url |-> page])
                         ELSE requests
          /\ IF r.raised
             THEN /\ visited' = Append(visited, [page |-> page, outcome |-> "raised", text |-> <<>>])
                  /\ pc' = OnPageException
                  /\ exception' = IF OnPageException = "loop" THEN exception ELSE "Exception"
                  /\ UNCHANGED <<all_text, successful_pages>>
             ELSE /\ visited' = Append(visited, [page |-> page, outcome |-> "returned", text |-> r.text])
                  /\ all_text' = CollectText(all_text, r.text)
                  /\ successful_pages' = CountSuccessful(successful_pages, r.text)
                  /\ UNCHANGED <<pc, exception>>
    /\ UNCHANGED <<main_url, anchors, discovery, subpages, result>>
    /\ UNCHANGED urlVars
    /\ UNCHANGED artVars
    /\ UNCHANGED extVars
    /\ UNCHANGED dashVars

\* the loop is over: join and return (website_scraper.py 170-180)
Finish ==
    /\ pc = "loop"
    /\ pending = {}
    /\ result' = CombinedText(all_text)
    /\ pc' = "done"
    /\ UNCHANGED <<main_url, anchors, discovery, subpages, pending, visited, all_text,
                   successful_pages, exception, requests>>
    /\ UNCHANGED urlVars
    /\ UNCHANGED artVars
    /\ UNCHANGED extVars
    /\ UNCHANGED dashVars

UrlsIdle ==
    /\ upc = "idle" /\ search_queries = <<>> /\ urls = <<>> /\ current_pos = 0
    /\ spans = <<>>

ArticlesIdle ==
    /\ apc = "idle" /\ unique_urls = <<>> /\ art_index = 0 /\ articles_text = <<>>
    /\ art_log = <<>>

ExtractIdle ==
    /\ epc = "idle" /\ parsed = <<>> /\ soup = <<>> /\ paragraphs = <<>> /\ extracted = <<>>

\* what a placeholder shows: nothing, the info line, the success line
Shown(kind) == [kind |-> kind, from |-> "none"]

\* a session_state attribute that is not set
Absent == [present |-> FALSE, rows |-> <<>>]

\* no prompt has been built
NoPrompt == [template |-> "none", scraped_text |-> <<>>]

DashIdle ==
    /\ dpc = "idle" /\ trending_data = Absent /\ article_ideas_data = Absent
    /\ progress_message = Shown("none") /\ row_index = 0 /\ scraped = <<>>
    /\ prompt = NoPrompt /\ article_ideas = <<>> /\ article_ideas_list = <<>>
    /\ save_log = <<>>

InitCrawl ==
    /\ UrlsIdle
    /\ ArticlesIdle
    /\ ExtractIdle
    /\ DashIdle
    /\ pc = "start"
    /\ main_url \in RootUrls
    /\ anchors \in SeqsUpTo(Hrefs, MaxHrefs)
    /\ discovery = "pending"
    /\ subpages = {}
    /\ pending = {}
    /\ visited = <<>>
    /\ all_text = <<>>
    /\ successful_pages = 0
    /\ result = <<>>
    /\ exception = "none"
    /\ requests = <<>>

NextCrawl ==
    \/ DiscoverRaises
    \/ \E status \in HttpStatuses : Discover(status)
    \/ \E page \in pending, resp \in Responses : ScrapePage(page, resp)
    \/ Finish

SpecCrawl == InitCrawl /\ [][NextCrawl]_vars

-----------------------------------------------------------------------------
(* scrape_urls: src/src/app.py 132-166 *)

HTTPS == <<"h","t","t","p","s",":","/","/">>

\* the characters that end a URL (app.py 156)
Terminators == {" ", "\"", "'", "\n", "<"}

\* app.py 149: search_queries.lower().find('https://', current_pos)
HttpsStart(text, pos) == Find(StrLower(text), HTTPS, pos)

\* app.py 154-157: the first index i in range(https_start, len(text)) with
\* text[i] a terminator, else len(text)
UrlEnd(text, https_start) ==
    LET ends == { i \in https_start..(Len(text) - 1) : text[i + 1] \in Terminators }
    IN IF ends = {} THEN Len(text) ELSE CHOOSE i \in ends : \A j \in ends : i <= j

\* a scan that resumes one character after the start of the URL just extracted
NextPosAfterStart(https_start, url_end) == https_start + 1

\* app.py 164: where the scan resumes
NextPos(https_start, url_end) == url_end + 1

\* nine times U+0130: lowering it makes the text nine characters longer
NineIDots == << IDotAbove, IDotAbove, IDotAbove, IDotAbove, IDotAbove,
                IDotAbove, IDotAbove, IDotAbove, IDotAbove >>

\* the pieces input texts are built from
TextChunks ==
    { HTTPS,
      <<"H","t","t","P","S",":","/","/">>,
      <<"a">>, <<" ">>, <<"\"">>, <<"'">>, <<"\n">>, <<"<">>,
      <<IDotAbove>>, NineIDots }

InputTexts == { Flatten(cs) : cs \in SeqsUpTo(TextChunks, MaxChunks) }

\* one iteration of the while loop that extracts a URL (app.py 147-164)
ScanStep ==
    /\ upc = "scan"
    /\ Len(urls) < MaxUrls
    /\ LET https_start == HttpsStart(search_queries, current_pos)
           url_end     == UrlEnd(search_queries, https_start)
       IN /\ https_start # -1
          /\ urls' = Append(urls, Slice(search_queries, https_start, url_end))
          /\ spans' = Append(spans, <<https_start, url_end>>)
          /\ current_pos' = NextPos(https_start, url_end)
    /\ UNCHANGED <<upc, search_queries>>
    /\ UNCHANGED crawlVars
    /\ UNCHANGED artVars
    /\ UNCHANGED extVars
    /\ UNCHANGED dashVars

\* the iteration that finds no further occurrence: break and return (app.py 150-151, 166)
ScanBreak ==
    /\ upc = "scan"
    /\ HttpsStart(search_queries, current_pos) = -1
    /\ upc' = "done"
    /\ UNCHANGED <<search_queries, urls, current_pos, spans>>
    /\ UNCHANGED crawlVars
    /\ UNCHANGED artVars
    /\ UNCHANGED extVars
    /\ UNCHANGED dashVars

CrawlIdle ==
    /\ pc = "idle" /\ main_url = <<>> /\ anchors = <<>> /\ discovery = "pending"
    /\ subpages = {} /\ pending = {} /\ visited = <<>> /\ all_text = <<>>
    /\ successful_pages = 0 /\ result = <<>> /\ exception = "none" /\ requests = <<>>

InitUrls ==
    /\ CrawlIdle
    /\ ArticlesIdle
    /\ ExtractIdle
    /\ DashIdle
    /\ upc = "scan"
    /\ search_queries \in InputTexts
    /\ urls = <<>>
    /\ current_pos = 0
    /\ spans = <<>>

NextUrls == ScanStep \/ ScanBreak

SpecUrls == InitUrls /\ [][NextUrls]_vars

-----------------------------------------------------------------------------
(* scrape_articles: src/src/app.py 103-129, on the text fetch_trending_data    *)
(* puts in the Articles column (app.py 78-82)                                  *)

\* most news articles of one trending topic
MaxArticles == 3

ArticleA   == <<"h","t","t","p","s",":","/","/","a",".","c","o">>
ArticlePdf == <<"h","t","t","p","s",":","/","/","b",".","c","o","/","x",".","P","D","F">>
ArticleHttp == <<"h","t","t","p",":","/","/","c",".","c","o">>
ArticleIDot == <<"h","t","t","p","s",":","/","/","a",".","c","o">> \o <<"/", IDotAbove>>
ArticleUrls == { ArticleA, ArticlePdf, ArticleHttp, ArticleIDot }

\* f"<a href='{article.url}' target='_blank'>{article.url}</a>" (app.py 78)
NewsLink(url) ==
    <<"<","a"," ","h","r","e","f","=","'">> \o url
    \o <<"'"," ","t","a","r","g","e","t","=","'","_","b","l","a","n","k","'",">">> \o url
    \o <<"<","/","a",">">>

\* "<br>".join(news_links) (app.py 82)
RECURSIVE JoinBr(_)
JoinBr(links) ==
    IF links = <<>> THEN <<>>
    ELSE IF Len(links) = 1 THEN Head(links)
    ELSE Head(links) \o <<"<","b","r",">">> \o JoinBr(Tail(links))

\* news_links_str (app.py 82)
NewsLinksStr(article_urls) ==
    IF article_urls = <<>> THEN <<"N","o"," ","a","r","t","i","c","l","e","s">>
    ELSE JoinBr([i \in DOMAIN article_urls |-> NewsLink(article_urls[i])])

ArticleInputs == { NewsLinksStr(us) : us \in SeqsUpTo(ArticleUrls, MaxArticles) }

\* a caller that scrapes the list as extracted
NoDedupe(list) == list

\* list(dict.fromkeys(urls)) (app.py 117): the first occurrence of every element, in order
RECURSIVE DictFromKeys(_, _)
DictFromKeys(list, acc) ==
    IF list = <<>> THEN acc
    ELSE DictFromKeys(Tail(list),
                      IF \E i \in DOMAIN acc : acc[i] = Head(list) THEN acc
                      ELSE Append(acc, Head(list)))
Dedupe(list) == DictFromKeys(list, <<>>)

\* a string as a run-length encoded text
RECURSIVE TextOfChars(_)
TextOfChars(s) ==
    IF s = <<>> THEN <<>> ELSE TextConcat(Run(Head(s), 1), TextOfChars(Tail(s)))

\* str(None), what an f-string prints for None
NoneText == TextOfChars(<<"N","o","n","e">>)

\* f"\n--- Article from {url} ---\n{text}\n" (app.py 125)
ArticleBlock(url, text) ==
    TextConcat(TextConcat(TextConcat(TextConcat(
        TextOfChars(<<"\n","-","-","-"," ","A","r","t","i","c","l","e"," ","f","r","o","m"," ">>),
        TextOfChars(url)),
        TextOfChars(<<" ","-","-","-","\n">>)),
        text),
        TextOfChars(<<"\n">>))

\* a loop that only reports the articles that gave text
AppendBlockIfText(acc, url, text) ==
    IF text = <<>> THEN acc ELSE TextConcat(acc, ArticleBlock(url, text))

\* all_text += f"..." (app.py 125)
AppendBlock(acc, url, text) == TextConcat(acc, ArticleBlock(url, text))

\* scrape_urls has returned: deduplicate (app.py 115-118)
DedupeUrls ==
    /\ apc = "urls"
    /\ upc = "done"
    /\ unique_urls' = Dedupe(urls)
    /\ apc' = "loop"
    /\ UNCHANGED <<art_index, articles_text, art_log>>
    /\ UNCHANGED crawlVars
    /\ UNCHANGED urlVars
    /\ UNCHANGED extVars
    /\ UNCHANGED dashVars

\* one iteration of `for url in urls` (app.py 121-127)
ScrapeArticle(resp) ==
    /\ apc = "loop"
    /\ art_index < Len(unique_urls)
    /\ art_index' = art_index + 1
    /\ LET url == unique_urls[art_index + 1]
           ret == scrape_single_page(url, resp)
       IN /\ requests' = IF ret.fetched
                         THEN Append(requests, [fn |-> "get_text_from_url", url |-> url])
                         ELSE requests
          /\ art_log' = Append(art_log, [url |-> url,
                                         got |-> get_text_from_url(url, resp),
                                         ret |-> ret])
          /\ articles_text' =
                IF ret.raised THEN articles_text
                ELSE AppendBlock(articles_text, url,
                                 IF ret.isNone THEN NoneText ELSE ret.text)
    /\ UNCHANGED <<apc, unique_urls>>
    /\ UNCHANGED <<pc, main_url, anchors, discovery, subpages, pending, visited,
                   all_text, successful_pages, result, exception>>
    /\ UNCHANGED urlVars
    /\ UNCHANGED extVars
    /\ UNCHANGED dashVars

\* the loop is over: return all_text (app.py 129)
ReturnArticles ==
    /\ apc = "loop"
    /\ art_index = Len(unique_urls)
    /\ apc' = "done"
    /\ UNCHANGED <<unique_urls, art_index, articles_text, art_log>>
    /\ UNCHANGED crawlVars
    /\ UNCHANGED urlVars
    /\ UNCHANGED extVars
    /\ UNCHANGED dashVars

InitArticles ==
    /\ CrawlIdle
    /\ ExtractIdle
    /\ DashIdle
    /\ apc = "urls"
    /\ unique_urls = <<>>
    /\ art_index = 0
    /\ articles_text = <<>>
    /\ art_log = <<>>
    /\ upc = "scan"
    /\ search_queries \in ArticleInputs
    /\ urls = <<>>
    /\ current_pos = 0
    /\ spans = <<>>

NextArticles ==
    \/ ScanStep
    \/ ScanBreak
    \/ DedupeUrls
    \/ \E resp \in Responses : ScrapeArticle(resp)
    \/ ReturnArticles

SpecArticles == InitArticles /\ [][NextArticles]_vars

-----------------------------------------------------------------------------
(* The extraction of get_text_from_url: src/src/website_scraper.py 87-97.      *)
(* A tree is a sequence of nodes [tag, text, kids]; a text node has the tag    *)
(* "#text" and no kids, an element has no text of its own.                     *)

\* most children of a <p>, and most top-level nodes of a page
MaxKids  == 2
MaxNodes == 2

TextNode(s)     == [tag |-> "#text", text |-> s, kids |-> <<>>]
Element(t, ks)  == [tag |-> t, text |-> <<>>, kids |-> ks]

TextHi   == <<"H","i">>
TextYo   == <<" ","y","o"," ">>
TextEvil == <<"e","v","i","l","(",")">>
TextCss  == <<"b","{","}">>

\* what a <p> of the model can hold
InlineNodes ==
    { TextNode(TextHi),
      TextNode(TextYo),
      Element("b", <<TextNode(TextYo)>>),
      Element("script", <<TextNode(TextEvil)>>),
      Element("p", <<TextNode(TextHi)>>) }

\* the parser joins adjacent character data into one string: no two text
\* nodes are neighbours in the tree it builds
NoAdjacentText(nodes) ==
    \A i \in 1..(Len(nodes) - 1) : ~(nodes[i].tag = "#text" /\ nodes[i + 1].tag = "#text")

PElements ==
    { Element("p", ks) : ks \in { s \in SeqsUpTo(InlineNodes, MaxKids) : NoAdjacentText(s) } }

TopNodes ==
    PElements
    \cup { Element("script", <<TextNode(TextEvil)>>),
           Element("style", <<TextNode(TextCss)>>),
           TextNode(TextHi) }

Pages == { s \in SeqsUpTo(TopNodes, MaxNodes) : NoAdjacentText(s) }

\* the characters str.strip() removes
Whitespace == {" ", "\n", "\t", "\r"}

\* s.strip()
StripWs(s) ==
    LET keep == { i \in DOMAIN s : s[i] \notin Whitespace }
    IN IF keep = {} THEN <<>>
       ELSE SubSeq(s, CHOOSE i \in keep : \A j \in keep : i <= j,
                      CHOOSE i \in keep : \A j \in keep : i >= j)

\* for e in soup(tags): e.decompose() (website_scraper.py 90-91)
RECURSIVE Decompose(_, _)
Decompose(nodes, tags) ==
    IF nodes = <<>> THEN <<>>
    ELSE IF Head(nodes).tag \in tags THEN Decompose(Tail(nodes), tags)
    ELSE << [Head(nodes) EXCEPT !.kids = Decompose(Head(nodes).kids, tags)] >>
         \o Decompose(Tail(nodes), tags)

\* soup.find_all(tag): every matching element, nested ones too, in document order
RECURSIVE FindAll(_, _)
FindAll(nodes, tag) ==
    IF nodes = <<>> THEN <<>>
    ELSE (IF Head(nodes).tag = tag THEN <<Head(nodes)>> ELSE <<>>)
         \o FindAll(Head(nodes).kids, tag)
         \o FindAll(Tail(nodes), tag)

\* the strings below nodes, in document order
RECURSIVE AllStrings(_)
AllStrings(nodes) ==
    IF nodes = <<>> THEN <<>>
    ELSE (IF Head(nodes).tag = "#text" THEN <<Head(nodes).text>> ELSE <<>>)
         \o AllStrings(Head(nodes).kids)
         \o AllStrings(Tail(nodes))

\* the strings of _all_strings(strip=True): each one stripped, the empty ones dropped
RECURSIVE StrippedStrings(_)
StrippedStrings(strings) ==
    IF strings = <<>> THEN <<>>
    ELSE (IF StripWs(Head(strings)) = <<>> THEN <<>> ELSE <<StripWs(Head(strings))>>)
         \o StrippedStrings(Tail(strings))

\* a get_text that strips the element's text as a whole
GetTextStripWhole(element) == StripWs(Flatten(AllStrings(<<element>>)))

\* element.get_text(strip=True): the stripped strings joined by the empty separator
GetTextStrip(element) == Flatten(StrippedStrings(AllStrings(<<element>>)))

\* '\n'.join(strings)
RECURSIVE JoinNewline(_)
JoinNewline(strings) ==
    IF strings = <<>> THEN <<>>
    ELSE IF Len(strings) = 1 THEN Head(strings)
    ELSE Head(strings) \o <<"\n">> \o JoinNewline(Tail(strings))

\* website_scraper.py 90-91
RemoveScriptAndStyle ==
    /\ epc = "parsed"
    /\ soup' = Decompose(soup, {"script", "style"})
    /\ epc' = "clean"
    /\ UNCHANGED <<parsed, paragraphs, extracted>>
    /\ UNCHANGED crawlVars
    /\ UNCHANGED urlVars
    /\ UNCHANGED artVars
    /\ UNCHANGED dashVars

\* website_scraper.py 94
FindParagraphs ==
    /\ epc = "clean"
    /\ paragraphs' = FindAll(soup, "p")
    /\ epc' = "found"
    /\ UNCHANGED <<parsed, soup, extracted>>
    /\ UNCHANGED crawlVars
    /\ UNCHANGED urlVars
    /\ UNCHANGED artVars
    /\ UNCHANGED dashVars

\* website_scraper.py 95-97
JoinParagraphs ==
    /\ epc = "found"
    /\ extracted' = JoinNewline([i \in DOMAIN paragraphs |-> GetTextStrip(paragraphs[i])])
    /\ epc' = "done"
    /\ UNCHANGED <<parsed, soup, paragraphs>>
    /\ UNCHANGED crawlVars
    /\ UNCHANGED urlVars
    /\ UNCHANGED artVars
    /\ UNCHANGED dashVars

\* BeautifulSoup(response.text, 'html.parser') has built the tree (website_scraper.py 87)
InitExtract ==
    /\ CrawlIdle
    /\ UrlsIdle
    /\ ArticlesIdle
    /\ DashIdle
    /\ epc = "parsed"
    /\ parsed \in Pages
    /\ soup = parsed
    /\ paragraphs = <<>>
    /\ extracted = <<>>

NextExtract == RemoveScriptAndStyle \/ FindParagraphs \/ JoinParagraphs

SpecExtract == InitExtract /\ [][NextExtract]_vars

-----------------------------------------------------------------------------
(* The dashboard: main, src/src/app.py 171-285, with save_text and             *)
(* query_chatgpt of src/src/utils.py and the prompt of src/src/prompts.py.     *)
(* A file system is not kept: a write is modelled by its outcome.              *)

\* most rows of the trending table (fetch_trending_data keeps 3, app.py 59)
MaxRows == 2

KeywordPlain == <<"n","b","a">>
KeywordSlash == <<"a","c","/","d","c">>

\* the rows fetch_trending_data can build (app.py 85-90): Keyword and Articles
TrendRows ==
    { [Keyword |-> KeywordPlain, Articles |-> NewsLinksStr(<<ArticleA>>)],
      [Keyword |-> KeywordSlash, Articles |-> NewsLinksStr(<<>>)] }

\* what fetch_trending_data returns (app.py 47-99); the empty table on an error too
TrendingTables == { [present |-> TRUE, rows |-> rs] : rs \in SeqsUpTo(TrendRows, MaxRows) }

\* what scrape_articles can return for the Articles cell of a row (app.py 244)
ScrapedTextsOf(articles) ==
    IF articles = NewsLinksStr(<<>>) THEN { <<>> }
    ELSE { <<>> } \cup { ArticleBlock(ArticleA, t) : t \in {<<>>, Run("p", 3)} }

\* f"./data/{stem}_{search_query}_{timestamp}.txt" (app.py 248, 253)
DataFile(stem, search_query) == [stem |-> stem, search_query |-> search_query]

\* what open(filepath, "w") and f.write can do: a path through a directory
\* that does not exist cannot be opened
WriteOutcomes(file) ==
    IF Find(file.search_query, <<"/">>, 0) # -1 THEN { "ioerror" } ELSE { "saved", "ioerror" }

\* a save_text without the try
save_text_uncaught(outcome) == [raised |-> outcome = "ioerror", written |-> outcome = "saved"]

\* save_text (utils.py 59-72): IOError is caught and printed
save_text(outcome) == [raised |-> FALSE, written |-> outcome = "saved"]

\* save_scraped_text (website_scraper.py 183-197): IOError is caught and printed
save_scraped_text(outcome) == [raised |-> FALSE, written |-> outcome = "saved"]

\* create_prompt_find_article_ideas (prompts.py 1-23): the template around the text
create_prompt_find_article_ideas(text) ==
    [template |-> "find_article_ideas", scraped_text |-> text]

\* what the chat completion's message content can be
ChatContents == { <<" ","I","d","e","a"," ","#","1","\n">> }

\* f"... An error occurred: {str(e)}" (app.py 275), e named by the call that raised it
ErrorFrom(call) == [kind |-> "error", from |-> call]

\* the locals of the handler, gone when the script run ends
LocalsCleared ==
    /\ row_index' = 0
    /\ scraped' = <<>>
    /\ prompt' = NoPrompt
    /\ article_ideas' = <<>>
    /\ article_ideas_list' = <<>>

\* a handler that stores the ideas gathered so far when a step raises
HandlerFailsStoringPartial(call) ==
    /\ dpc' = "ready"
    /\ progress_message' = ErrorFrom(call)
    /\ LocalsCleared
    /\ article_ideas_data' = [present |-> TRUE, rows |-> article_ideas_list]
    /\ UNCHANGED trending_data

\* except Exception (app.py 274-276): show the error; the script run ends
HandlerFails(call) ==
    /\ dpc' = "ready"
    /\ progress_message' = ErrorFrom(call)
    /\ LocalsCleared
    /\ UNCHANGED <<trending_data, article_ideas_data>>

\* "Refresh Now" (app.py 188-192)
RefreshNow(table) ==
    /\ dpc = "ready"
    /\ trending_data' = table
    /\ progress_message' = Shown("none")
    /\ save_log' = <<>>
    /\ UNCHANGED <<dpc, article_ideas_data, row_index, scraped, prompt,
                   article_ideas, article_ideas_list>>
    /\ UNCHANGED crawlVars
    /\ UNCHANGED urlVars
    /\ UNCHANGED artVars
    /\ UNCHANGED extVars

\* "Find article ideas" (app.py 205, 230-236): the button exists only with trending_data
ClickFindArticleIdeas ==
    /\ dpc = "ready"
    /\ trending_data.present
    /\ dpc' = "loop"
    /\ progress_message' = Shown("info")
    /\ save_log' = <<>>
    /\ LocalsCleared
    /\ UNCHANGED <<trending_data, article_ideas_data>>
    /\ UNCHANGED crawlVars
    /\ UNCHANGED urlVars
    /\ UNCHANGED artVars
    /\ UNCHANGED extVars

CurrentRow == trending_data.rows[row_index + 1]

\* scraped_text = scrape_articles(articles) (app.py 239-244)
ScrapeRow(text) ==
    /\ dpc = "loop"
    /\ row_index < Len(trending_data.rows)
    /\ text \in ScrapedTextsOf(CurrentRow.Articles)
    /\ scraped' = text
    /\ dpc' = "save_scraped"
    /\ UNCHANGED <<trending_data, article_ideas_data, progress_message, row_index,
                   prompt, article_ideas, article_ideas_list, save_log>>
    /\ UNCHANGED crawlVars
    /\ UNCHANGED urlVars
    /\ UNCHANGED artVars
    /\ UNCHANGED extVars

\* save_text(scraped_text, ...) (app.py 247-248)
SaveScrapedText(outcome) ==
    /\ dpc = "save_scraped"
    /\ LET file == DataFile("scrapedarticles", CurrentRow.Keyword)
       IN /\ outcome \in WriteOutcomes(file)
          /\ save_log' = Append(save_log, [row |-> row_index + 1, file |-> file,
                                           content |-> scraped, outcome |-> outcome])
    /\ IF save_text(outcome).raised
       THEN HandlerFails("save_text")
       ELSE /\ dpc' = "prompt"
            /\ UNCHANGED <<trending_data, article_ideas_data, progress_message, row_index,
                           scraped, prompt, article_ideas, article_ideas_list>>
    /\ UNCHANGED crawlVars
    /\ UNCHANGED urlVars
    /\ UNCHANGED artVars
    /\ UNCHANGED extVars

\* prompt = create_prompt_find_article_ideas(scraped_text) (app.py 251)
BuildPrompt ==
    /\ dpc = "prompt"
    /\ prompt' = create_prompt_find_article_ideas(scraped)
    /\ dpc' = "query"
    /\ UNCHANGED <<trending_data, article_ideas_data, progress_message, row_index,
                   scraped, article_ideas, article_ideas_list, save_log>>
    /\ UNCHANGED crawlVars
    /\ UNCHANGED urlVars
    /\ UNCHANGED artVars
    /\ UNCHANGED extVars

\* article_ideas = query_chatgpt(prompt) returns content.strip() (app.py 252, utils.py 28-35)
QueryReturns(content) ==
    /\ dpc = "query"
    /\ article_ideas' = StripWs(content)
    /\ dpc' = "save_ideas"
    /\ UNCHANGED <<trending_data, article_ideas_data, progress_message, row_index,
                   scraped, prompt, article_ideas_list, save_log>>
    /\ UNCHANGED crawlVars
    /\ UNCHANGED urlVars
    /\ UNCHANGED artVars
    /\ UNCHANGED extVars

\* query_chatgpt logs the exception and raises it again (utils.py 36-57)
QueryRaises ==
    /\ dpc = "query"
    /\ HandlerFails("query_chatgpt")
    /\ UNCHANGED save_log
    /\ UNCHANGED crawlVars
    /\ UNCHANGED urlVars
    /\ UNCHANGED artVars
    /\ UNCHANGED extVars

\* save_text(article_ideas, ...) and the append (app.py 253-259)
SaveIdeasAndAppend(outcome) ==
    /\ dpc = "save_ideas"
    /\ LET file == DataFile("gptsuggestions", CurrentRow.Keyword)
       IN /\ outcome \in WriteOutcomes(file)
          /\ save_log' = Append(save_log, [row |-> row_index + 1, file |-> file,
                                           content |-> article_ideas, outcome |-> outcome])
    /\ IF save_text(outcome).raised
       THEN HandlerFails("save_text")
       ELSE /\ article_ideas_list' =
                   Append(article_ideas_list, [SearchQuery  |-> CurrentRow.Keyword,
                                               ArticleIdeas |-> article_ideas])
            /\ row_index' = row_index + 1
            /\ dpc' = "loop"
            /\ UNCHANGED <<trending_data, article_ideas_data, progress_message,
                           scraped, prompt, article_ideas>>
    /\ UNCHANGED crawlVars
    /\ UNCHANGED urlVars
    /\ UNCHANGED artVars
    /\ UNCHANGED extVars

\* the loop is over: st.session_state.article_ideas_data = ... (app.py 262-264)
StoreArticleIdeas ==
    /\ dpc = "loop"
    /\ row_index = Len(trending_data.rows)
    /\ article_ideas_data' = [present |-> TRUE, rows |-> article_ideas_list]
    /\ progress_message' = Shown("success")
    /\ dpc' = "ready"
    /\ LocalsCleared
    /\ UNCHANGED <<trending_data, save_log>>
    /\ UNCHANGED crawlVars
    /\ UNCHANGED urlVars
    /\ UNCHANGED artVars
    /\ UNCHANGED extVars

\* a new session: nothing in session_state (app.py 171-186)
InitDash ==
    /\ CrawlIdle
    /\ UrlsIdle
    /\ ArticlesIdle
    /\ ExtractIdle
    /\ dpc = "ready"
    /\ trending_data = Absent
    /\ article_ideas_data = Absent
    /\ progress_message = Shown("none")
    /\ row_index = 0
    /\ scraped = <<>>
    /\ prompt = NoPrompt
    /\ article_ideas = <<>>
    /\ article_ideas_list = <<>>
    /\ save_log = <<>>

NextDash ==
    \/ \E table \in TrendingTables : RefreshNow(table)
    \/ ClickFindArticleIdeas
    \/ \E text \in { <<>> } \cup { ArticleBlock(ArticleA, t) : t \in {<<>>, Run("p", 3)} } :
          ScrapeRow(text)
    \/ \E outcome \in { "saved", "ioerror" } : SaveScrapedText(outcome)
    \/ BuildPrompt
    \/ \E content \in ChatContents : QueryReturns(content)
    \/ QueryRaises
    \/ \E outcome \in { "saved", "ioerror" } : SaveIdeasAndAppend(outcome)
    \/ StoreArticleIdeas

SpecDash == InitDash /\ [][NextDash]_vars

-----------------------------------------------------------------------------
(* Properties of scrape_website, checked under SpecCrawl *)

VisitedPages == { visited[i].page : i \in DOMAIN visited }

\* the texts the loop got back that are not empty, in the order of the iterations
RECURSIVE NonEmptyTexts(_)
NonEmptyTexts(vs) ==
    IF vs = <<>> THEN <<>>
    ELSE IF Head(vs).outcome = "returned" /\ Head(vs).text # <<>>
         THEN <<Head(vs).text>> \o NonEmptyTexts(Tail(vs))
    ELSE NonEmptyTexts(Tail(vs))

\* texts separated by single spaces, built from the left
RECURSIVE SpaceSeparated(_)
SpaceSeparated(texts) ==
    IF texts = <<>> THEN <<>>
    ELSE IF Len(texts) = 1 THEN texts[1]
    ELSE TextConcat(TextConcat(SpaceSeparated(SubSeq(texts, 1, Len(texts) - 1)), Space),
                    texts[Len(texts)])

RECURSIVE SumLen(_)
SumLen(texts) == IF texts = <<>> THEN 0 ELSE TextLen(Head(texts)) + SumLen(Tail(texts))

\* C1: the string scrape_website returns is never longer than
\* MAX_SCRAPED_TEXT_LENGTH, and when the space-joined page texts are longer it
\* is exactly their first MAX_SCRAPED_TEXT_LENGTH characters.
C1_ReturnedTextIsCapped ==
    pc = "done" =>
        /\ TextLen(result) <= MAX_SCRAPED_TEXT_LENGTH
        /\ (TextLen(SpaceSeparated(NonEmptyTexts(visited))) > MAX_SCRAPED_TEXT_LENGTH
              => result = TextPrefix(SpaceSeparated(NonEmptyTexts(visited)),
                                     MAX_SCRAPED_TEXT_LENGTH))

\* C2: when the discovery fetch answers a non-success status, get_subpages
\* yields an empty candidate set without raising and scrape_website goes on:
\* the root is a candidate and no exception leaves scrape_website.
C2_Non200DiscoveryStillCrawlsRoot ==
    discovery = "non200" =>
        /\ pc \in {"loop", "done"}
        /\ exception = "none"
        /\ main_url \in subpages

\* C3: whatever the pages answer (text, empty text, a failed fetch, an
\* exception inside scrape_single_page), the loop attempts every candidate and
\* the crawl returns: once a page was attempted the crawl is in its loop or has
\* returned, the pages still to visit are exactly the candidates not yet
\* attempted, and at the return every candidate was attempted exactly once.
C3_PageFailuresDoNotAbortCrawl ==
    /\ (visited # <<>> => pc \in {"loop", "done"} /\ exception = "none")
    /\ (pc \in {"loop", "done"} =>
            /\ pending = subpages \ VisitedPages
            /\ Cardinality(VisitedPages) = Len(visited))
    /\ (pc = "done" => VisitedPages = subpages)

\* a crawl that returned although a page raised, and scraped a page after it
C3_Witness ==
    /\ pc = "done"
    /\ \E i, j \in DOMAIN visited :
          /\ i < j
          /\ visited[i].outcome = "raised"
          /\ visited[j].outcome = "returned" /\ visited[j].text # <<>>

\* C4: scrape_website raises only when get_subpages raises, then with no page
\* scraped; whenever discovery does not raise, scrape_website does not raise.
C4_CrawlFailsOnlyWhenDiscoveryRaises ==
    /\ (pc = "raised" => discovery = "raised" /\ visited = <<>>)
    /\ (discovery \in {"ok", "non200"} => pc # "raised" /\ exception = "none")

\* C5: the returned text is the non-empty page results, in iteration order,
\* joined by single spaces; empty results, failed fetches and pages that raised
\* add nothing, not even a separator; with no non-empty result it is "".
C5_AggregateIsNonEmptyTextsJoined ==
    pc = "done" =>
        /\ result = SpaceSeparated(NonEmptyTexts(visited))
        /\ all_text = NonEmptyTexts(visited)
        /\ TextLen(result) = SumLen(NonEmptyTexts(visited))
                             + Max(Len(NonEmptyTexts(visited)) - 1, 0)
        /\ (NonEmptyTexts(visited) = <<>> => result = <<>>)

\* a finished crawl with two different texts around a page that added nothing
C5_Witness ==
    /\ pc = "done"
    /\ Len(all_text) = 2 /\ all_text[1] # all_text[2]
    /\ \E i, j, k \in DOMAIN visited :
          /\ i < j /\ j < k
          /\ visited[i].text # <<>> /\ visited[k].text # <<>>
          /\ visited[j].text = <<>>

\* C6: a URL that ends (case-insensitively) in one of SKIP_EXTENSIONS gets the
\* empty string from scrape_single_page, and no HTTP request is ever issued
\* for it.
C6_SkipExtensionNeverRequested ==
    /\ \A i \in DOMAIN requests : ~HasSkipExtension(requests[i].url)
    /\ \A i \in DOMAIN visited :
          HasSkipExtension(visited[i].page)
             => visited[i].outcome = "returned" /\ visited[i].text = <<>>

\* C7: is_internal_url(base_url, candidate) is true exactly when the network
\* location of the candidate resolved against base_url equals that of base_url.
C7_InternalIffResolvedNetlocMatches ==
    discovery = "ok" =>
        \A i \in DOMAIN anchors :
            is_internal_url(main_url, anchors[i])
               <=> (Netloc(UrlJoin(main_url, anchors[i])) = Netloc(main_url))

AboutUsResolved ==
    <<"h","t","t","p","s",":","/","/","a",".","c","o","m","/","a","b","o","u","t","-","u","s">>

\* C8: after a successful discovery the candidates are exactly the hrefs that
\* are internal or whose raw text, slashes stripped and lowercased, is a common
\* subpage name, each resolved against the root URL (and the root itself);
\* /about-us is there in absolute form and an external non-slug href is not.
C8_SubpagesAreResolvedKeptHrefs ==
    discovery = "ok" =>
        /\ subpages =
              { UrlJoin(main_url, anchors[i]) :
                  i \in { k \in DOMAIN anchors :
                            \/ is_internal_url(main_url, anchors[k])
                            \/ StrLower(Strip(anchors[k], "/")) \in COMMON_SUBPAGE_NAMES } }
              \cup {main_url}
        /\ ((main_url = RootSite /\ \E i \in DOMAIN anchors : anchors[i] = HrefAboutUs)
               => AboutUsResolved \in subpages)
        /\ HrefAboutUs \notin subpages
        /\ HrefExternal \notin subpages

\* the root page of the scenario: anchors to /about-us and to an external page
C8_Witness ==
    /\ discovery = "ok"
    /\ main_url = RootSite
    /\ anchors = <<HrefAboutUs, HrefExternal>>
    /\ subpages = {RootSite, AboutUsResolved}

\* how many requests of the log satisfy fn = f
RequestsOf(f) == { i \in DOMAIN requests : requests[i].fn = f }

\* C14: when the page loop starts the candidate collection holds the root URL
\* and no URL twice, whatever hrefs the root page holds (repeated ones, ones
\* that resolve to the root): the loop visits each distinct candidate exactly once.
C14_CandidatesHoldRootOnceEach ==
    pc \in {"loop", "done"} =>
        /\ main_url \in subpages
        /\ Cardinality(subpages) <= Len(anchors) + 1
        /\ \A i, j \in DOMAIN visited : visited[i].page = visited[j].page => i = j
        /\ VisitedPages \subseteq subpages
        /\ (pc = "done" => Len(visited) = Cardinality(subpages))

\* a root page whose two anchors both resolve to the root itself, crawled to the end
C14_Witness ==
    /\ pc = "done"
    /\ anchors = <<HrefRoot, HrefRoot>>
    /\ subpages = {main_url}
    /\ Len(visited) = 1

\* C15: one hop, no retry: link discovery is requested once and only for the
\* root URL, every candidate is fetched for its text at most once (so a failed
\* fetch is never repeated), and only candidates are fetched.
C15_OneHopNoRetry ==
    /\ Cardinality(RequestsOf("get_subpages")) <= 1
    /\ (pc \in {"loop", "done"} => Cardinality(RequestsOf("get_subpages")) = 1)
    /\ \A i \in RequestsOf("get_subpages") : requests[i].url = main_url /\ i = 1
    /\ \A i, j \in RequestsOf("get_text_from_url") :
          requests[i].url = requests[j].url => i = j
    /\ \A i \in RequestsOf("get_text_from_url") : requests[i].url \in subpages
    /\ Len(requests) <= 1 + Cardinality(subpages)

\* a finished crawl of three pages in which a fetch came back empty-handed
C15_Witness ==
    /\ pc = "done"
    /\ Cardinality(RequestsOf("get_text_from_url")) = 3
    /\ \E i \in DOMAIN visited : visited[i].text = <<>> /\ ~HasSkipExtension(visited[i].page)

\* C16: in the page loop successful_pages equals the number of texts collected,
\* which is the number of visited candidates with a non-empty result; at the
\* end it is at most the number of candidates, and that number counts the root.
C16_SuccessCounterMatchesTexts ==
    pc \in {"loop", "done"} =>
        /\ successful_pages = Len(all_text)
        /\ successful_pages = Len(NonEmptyTexts(visited))
        /\ successful_pages <= Cardinality(subpages)
        /\ main_url \in subpages /\ Cardinality(subpages) >= 1

\* a finished crawl of three candidates, two of which gave text
C16_Witness ==
    /\ pc = "done"
    /\ Cardinality(subpages) = 3
    /\ successful_pages = 2

-----------------------------------------------------------------------------
(* Properties of scrape_urls, checked under SpecUrls *)

\* C9: every extracted URL is a contiguous substring of the input that starts
\* with https:// (case-insensitively), holds no terminator character, and ends
\* right before the first terminator after its start or at the end of the text.
C9_UrlsAreHttpsSubstrings ==
    \A k \in DOMAIN urls :
        /\ StartsWith(StrLower(urls[k]), HTTPS)
        /\ \A i \in DOMAIN urls[k] : urls[k][i] \notin Terminators
        /\ \E a \in 0..Len(search_queries) :
              /\ urls[k] = Slice(search_queries, a, a + Len(urls[k]))
              /\ \/ a + Len(urls[k]) = Len(search_queries)
                 \/ search_queries[a + Len(urls[k]) + 1] \in Terminators

\* C10: the extracted URLs are in input order and their index ranges are
\* disjoint: every scan starts after the end of the URL extracted before it, so
\* no input character belongs to two URLs.
C10_UrlsOrderedAndDisjoint ==
    /\ Len(spans) = Len(urls)
    /\ \A k \in DOMAIN urls :
          urls[k] = Slice(search_queries, spans[k][1], spans[k][2])
    /\ \A i, j \in DOMAIN spans :
          i < j => /\ spans[i][1] <= spans[j][1]
                   /\ spans[i][2] <= spans[j][1]
                   /\ ~ \E x \in 0..Len(search_queries) :
                          /\ spans[i][1] <= x /\ x < spans[i][2]
                          /\ spans[j][1] <= x /\ x < spans[j][2]
    /\ (spans # <<>> => current_pos > spans[Len(spans)][2])

\* two URLs extracted from one text, the second right behind the first one's terminator
C10_Witness ==
    /\ upc = "done"
    /\ Len(urls) = 2
    /\ urls[1] # <<>> /\ urls[2] # <<>>
    /\ spans[2][1] = spans[1][2] + 1

\* C18: the scan loop of scrape_urls terminates: every iteration that extracts
\* a URL moves the scan position strictly forward, to at least 8 characters
\* past where the search started, so the text length bounds the iterations.
C18_ScanPositionAdvances ==
    [][ Len(urls') > Len(urls) =>
           /\ current_pos' > current_pos
           /\ spans'[Len(spans')][2] >= current_pos + 8
           /\ Len(urls') <= Len(search_queries) ]_vars

\* the scan has returned
ScanDone == upc = "done"

\* C19: scrape_urls misses no occurrence: when it returns, every index at
\* which https:// occurs (case-insensitively) in the input lies in the index
\* range of exactly one returned URL.
C19_EveryOccurrenceIsCovered ==
    ScanDone =>
        \A i \in 0..(Len(search_queries) - Len(HTTPS)) :
            StrLower(Slice(search_queries, i, i + Len(HTTPS))) = HTTPS
               => Cardinality({ k \in DOMAIN spans :
                                  spans[k][1] <= i /\ i < spans[k][2] }) = 1

-----------------------------------------------------------------------------
(* Properties of scrape_articles, checked under SpecArticles *)

\* the entries of a sequence are pairwise different
NoDuplicates(list) ==
    \A i, j \in DOMAIN list : list[i] = list[j] => i = j

\* the index of the first occurrence of x in list
FirstIndex(list, x) ==
    CHOOSE i \in DOMAIN list : list[i] = x /\ \A j \in DOMAIN list : list[j] = x => i <= j

ArticlesDeduplicated == apc \in {"loop", "done"}
ArticlesDone == apc = "done"

\* C11: in scrape_articles the list that is scraped has no duplicate entries,
\* holds every distinct URL scrape_urls returned, in the order of their first
\* occurrence in scrape_urls's output, and the loop scrapes its entries one by
\* one, so no URL is scraped twice in one call.
C11_ScrapedListIsFirstSeenDistinct ==
    /\ ArticlesDeduplicated =>
          /\ NoDuplicates(unique_urls)
          /\ { unique_urls[i] : i \in DOMAIN unique_urls } = { urls[i] : i \in DOMAIN urls }
          /\ \A i, j \in DOMAIN unique_urls :
                i < j => FirstIndex(urls, unique_urls[i]) < FirstIndex(urls, unique_urls[j])
    /\ Len(art_log) <= Len(unique_urls)
    /\ \A k \in DOMAIN art_log : art_log[k].url = unique_urls[k]
    /\ NoDuplicates([k \in DOMAIN art_log |-> art_log[k].url])

\* scrape_urls returned a list of the shape [a, b, a] and every kept URL was scraped
C11_Witness ==
    /\ ArticlesDone
    /\ \E i, j, k \in DOMAIN urls :
          i < j /\ j < k /\ urls[i] = urls[k] /\ urls[i] # urls[j]
    /\ Len(unique_urls) = 2
    /\ Len(art_log) = 2

ExpectedBlock(url, text) ==
    TextConcat(TextOfChars(<<"\n","-","-","-"," ","A","r","t","i","c","l","e"," ","f","r","o","m"," ">>
                           \o url \o <<" ","-","-","-","\n">>),
               TextConcat(text, Run("\n", 1)))

\* the blocks of the first n iterations that did not raise, concatenated
RECURSIVE ExpectedArticles(_)
ExpectedArticles(n) ==
    IF n = 0 THEN <<>>
    ELSE IF art_log[n].ret.raised THEN ExpectedArticles(n - 1)
    ELSE TextConcat(ExpectedArticles(n - 1),
                    ExpectedBlock(unique_urls[n], art_log[n].ret.text))

\* C20: what scrape_articles returns is the concatenation, in first-seen URL
\* order, of one block "\n--- Article from <url> ---\n<text>\n" for every
\* distinct extracted URL whose scrape did not raise (an empty text included);
\* a URL whose scrape raises adds no block, and the URLs after it are scraped.
C20_ReturnIsOneBlockPerScrapedUrl ==
    ArticlesDone =>
        /\ Len(art_log) = Len(unique_urls)
        /\ NoDuplicates(unique_urls)
        /\ { unique_urls[i] : i \in DOMAIN unique_urls } = { urls[i] : i \in DOMAIN urls }
        /\ \A i, j \in DOMAIN unique_urls :
              i < j => FirstIndex(urls, unique_urls[i]) < FirstIndex(urls, unique_urls[j])
        /\ articles_text = ExpectedArticles(Len(art_log))

\* a scrape raised, a later URL was still scraped, and one scraped text was empty
C20_Witness ==
    /\ ArticlesDone
    /\ \E i, j \in DOMAIN art_log :
          /\ i < j
          /\ art_log[i].ret.raised
          /\ ~art_log[j].ret.raised /\ art_log[j].ret.text = <<>>
    /\ \E k \in DOMAIN art_log : ~art_log[k].ret.raised /\ art_log[k].ret.text # <<>>

-----------------------------------------------------------------------------
(* Properties of get_text_from_url's extraction, checked under SpecExtract *)

ExtractDone == epc = "done"

\* the page's <p> elements outside script and style, in document order
PageParagraphs == FindAll(Decompose(parsed, {"script", "style"}), "p")

\* s occurs in text
Occurs(s, text) == Find(text, s, 0) # -1

\* no text of a script or style subtree is in what is returned
NoScriptOrStyleText ==
    ExtractDone => ~Occurs(TextEvil, extracted) /\ ~Occurs(TextCss, extracted)

\* C13: for a fetched page get_text_from_url returns the whitespace-trimmed
\* texts of the page's <p> elements, in document order, joined by a newline,
\* and no text from inside a <script> or <style> subtree is in the result.
C13_ParagraphTextsTrimmedAndJoined ==
    ExtractDone =>
        /\ extracted = JoinNewline([i \in DOMAIN PageParagraphs |->
                                       GetTextStripWhole(PageParagraphs[i])])
        /\ ~Occurs(TextEvil, extracted)
        /\ ~Occurs(TextCss, extracted)

-----------------------------------------------------------------------------
(* Properties of the dashboard, checked under SpecDash *)

\* the save_text calls of this run that wrote the scraped text of row r
ScrapedSavesOf(r) ==
    { i \in DOMAIN save_log : save_log[i].row = r /\ save_log[i].file.stem = "scrapedarticles" }

HandlerRunning == dpc # "ready"

\* every row of data has its ideas in the list, in the order of the rows
IdeasForEveryRow(list) ==
    /\ Len(list) = Len(trending_data.rows)
    /\ \A r \in DOMAIN list : list[r].SearchQuery = trending_data.rows[r].Keyword

\* C21: "Find article ideas" replaces session_state.article_ideas_data all or
\* nothing: it is assigned only when every row of the table has been scraped
\* and query_chatgpt has returned for each; when a step raises for some row,
\* article_ideas_data keeps the value it had (or stays absent) and
\* trending_data is unchanged; and the handler starts only with trending_data
\* present in the session.
C21_ArticleIdeasReplacedAllOrNothing ==
    [][ /\ article_ideas_data' # article_ideas_data =>
              /\ HandlerRunning
              /\ row_index = Len(trending_data.rows)
              /\ IdeasForEveryRow(article_ideas_list)
              /\ Len(save_log) = 2 * Len(trending_data.rows)
              /\ article_ideas_data' = [present |-> TRUE, rows |-> article_ideas_list]
              /\ progress_message' = Shown("success")
        /\ progress_message'.kind = "error" =>
              /\ article_ideas_data' = article_ideas_data
              /\ trending_data' = trending_data
        /\ HandlerRunning \/ HandlerRunning' => trending_data' = trending_data
        /\ (~HandlerRunning /\ HandlerRunning') => trending_data.present ]_vars

\* query_chatgpt raised for the second row, after the first row got its ideas,
\* and the ideas stored by an earlier run are still there
C21_Witness ==
    /\ progress_message = ErrorFrom("query_chatgpt")
    /\ \E i \in DOMAIN save_log : save_log[i].row = 2
    /\ article_ideas_data.present
    /\ IdeasForEveryRow(article_ideas_data.rows)
    /\ Len(article_ideas_data.rows) = 2

====
